---- MODULE Spec2Model ----
(***************************************************************************)
(* The paper-trading ledger of AstraTrader (src/accounts.py) over the      *)
(* price resolver (src/market.py) and the persistence store                *)
(* (database.write_account / read_account / write_log).                    *)
(*                                                                         *)
(* Money is fixed-point: every amount (balance, execution price, cost,     *)
(* portfolio value) is an integer number of mills (1/Milli of a currency   *)
(* unit), base prices are whole currency units, so that                    *)
(* price * (1 + SPREAD) is the exact integer price * (Milli + SPREAD).     *)
(* Python's binary floating point rounding is not modelled.                *)
(***************************************************************************)
EXTENDS Integers, Sequences, FiniteSets, TLC

VARIABLES
    acct,     \* the Account object in memory (accounts.py:30-37)
    db,       \* the store: key -> persisted account record
    market,   \* canonical symbol -> base price get_share_price resolves now
    clock,    \* datetime.now(timezone.utc), in seconds
    last,     \* the last step: operation, arguments and outcome
    nSteps,     \* number of steps taken: calls, clock ticks and price moves
    procs,    \* concurrent callers, each with its own loaded Account object
    lru,          \* the lru_cache of get_market_for_prior_date
    market_table, \* the store: date -> bulk end-of-day price map
    nLookups,     \* number of calls of get_market_for_prior_date so far
    nFetches,     \* date -> number of bulk fetches made for it
    callers,      \* concurrent callers of get_market_for_prior_date
    px,           \* one call of get_share_price: inputs, provider, result
    nz,           \* one call of normalize_symbol: input and result
    cd            \* one call of get_portfolio_candles: inputs and result

ledgerVars == <<acct, db, market, clock, last, nSteps, procs>>
cacheVars == <<lru, market_table, nLookups, nFetches, callers>>
vars == <<acct, db, market, clock, last, nSteps, procs,
          lru, market_table, nLookups, nFetches, callers, px, nz, cd>>
pureVars == <<px, nz, cd>>

----------------------------------------------------------------------------
(* Program constants *)

Milli == 1000
INITIAL_BALANCE == 10000
SPREAD == 2

(* Bounds of the model *)

MaxSteps == 4
MaxFaultSteps == 3
MaxTripSteps == 3
MaxLookups == 4

(* Inputs *)

Symbols == {"AAPL", "MSFT"}
Prices == {0, 100}
Quantities == {-100, 0, 10, 100}
DepositAmounts == {-1000000, 0, 1000000}
WithdrawAmounts == {-1000000, 0, 1000000, 20000000}
Strategies == {"momentum"}
Name == "ed"
Dates == {"2026-11-01", "2026-11-02", "2026-11-03"}
None == -1
Whens == {None, 0}

(* Outcomes of a call: "ok" is a normal return, the others are the         *)
(* exception that left the handler.                                        *)
Rejections == {"InsufficientFunds", "UnknownSymbol", "InsufficientShares",
               "ValidationError", "KeyError"}
IOFailures == {"PersistenceFailure", "LogFailure"}

----------------------------------------------------------------------------
(* dict helpers: a Python dict is a function on the set of its keys *)

DictGet(h, k, dflt) == IF k \in DOMAIN h THEN h[k] ELSE dflt

DictSet(h, k, v) == [x \in (DOMAIN h) \cup {k} |-> IF x = k THEN v ELSE h[x]]

DictDel(h, k) == [x \in (DOMAIN h) \ {k} |-> h[x]]

EmptyDict == [x \in {} |-> 0]

RECURSIVE SumOver(_, _, _)
SumOver(h, S, m) ==
    IF S = {} THEN 0
    ELSE LET s == CHOOSE x \in S : TRUE
         IN m[s] * h[s] + SumOver(h, S \ {s}, m)

----------------------------------------------------------------------------
(* The store *)

write_account(d, key, rec) == DictSet(d, key, rec)

read_account(d, key) == DictGet(d, key, EmptyDict)

DefaultFields(name) ==
    [name |-> name, balance |-> INITIAL_BALANCE * Milli, strategy |-> "",
     holdings |-> EmptyDict, transactions |-> <<>>,
     portfolio_value_time_series |-> <<>>]

(* Result of a handler: the object, the store and the outcome *)
R(a, d, out) == [acct |-> a, db |-> d, out |-> out]

lower(name) == CASE name = "Ed" -> "ed" [] OTHER -> name

save(a, d) == write_account(d, lower(a.name), a)

get(d, name) ==
    LET fields == read_account(d, lower(name))
    IN  IF fields = EmptyDict
        THEN R(DefaultFields(lower(name)),
               write_account(d, name, DefaultFields(lower(name))), "ok")
        ELSE R(fields, d, "ok")

----------------------------------------------------------------------------
(* The price resolver, as the ledger sees it *)

get_share_price(m, symbol) == m[symbol]

calculate_portfolio_value(a, m) ==
    a.balance + Milli * SumOver(a.holdings, DOMAIN a.holdings, m)

----------------------------------------------------------------------------
(* The in-memory part of each handler: the object and the outcome at the   *)
(* point where the handler raises or reaches its first save().             *)

M(a, out) == [acct |-> a, out |-> out]

deposit_mutate(a, amount) ==
    IF amount <= 0 THEN M(a, "ValidationError")
    ELSE M([a EXCEPT !.balance = @ + amount], "ok")

withdraw_mutate(a, amount) ==
    IF amount > a.balance THEN M(a, "InsufficientFunds")
    ELSE M([a EXCEPT !.balance = @ - amount], "ok")

(* Variants of the handlers below, each with one plausible slip; they are   *)
(* used to show that the properties depend on the handlers.                *)

(* holdings are updated before the funds and price checks *)
buy_shares_mutate_update_first(a, m, symbol, quantity, rationale, ts) ==
    LET price == get_share_price(m, symbol)
        buy_price == price * (Milli + SPREAD)
        total_cost == buy_price * quantity
        transaction == [symbol |-> symbol, quantity |-> quantity,
                        price |-> buy_price, timestamp |-> ts,
                        rationale |-> rationale]
        a0 == [a EXCEPT !.holdings = DictSet(@, symbol,
                                             DictGet(@, symbol, 0) + quantity)]
    IN  IF total_cost > a.balance THEN M(a0, "InsufficientFunds")
        ELSE IF price = 0 THEN M(a0, "UnknownSymbol")
        ELSE M([a0 EXCEPT
                  !.transactions = Append(@, transaction),
                  !.balance = @ - total_cost], "ok")

(* the balance is charged the base price, without the spread *)
buy_shares_mutate_no_spread(a, m, symbol, quantity, rationale, ts) ==
    LET price == get_share_price(m, symbol)
        buy_price == price * (Milli + SPREAD)
        total_cost == buy_price * quantity
        transaction == [symbol |-> symbol, quantity |-> quantity,
                        price |-> buy_price, timestamp |-> ts,
                        rationale |-> rationale]
    IN  IF total_cost > a.balance THEN M(a, "InsufficientFunds")
        ELSE IF price = 0 THEN M(a, "UnknownSymbol")
        ELSE M([a EXCEPT
                  !.holdings = DictSet(@, symbol,
                                       DictGet(@, symbol, 0) + quantity),
                  !.transactions = Append(@, transaction),
                  !.balance = @ - price * Milli * quantity], "ok")

(* a sale at the sentinel price 0 is rejected, as a buy is *)
sell_shares_mutate_price_guard(a, m, symbol, quantity, rationale, ts) ==
    LET price == get_share_price(m, symbol)
        sell_price == price * (Milli - SPREAD)
        total_proceeds == sell_price * quantity
        left == a.holdings[symbol] - quantity
        transaction == [symbol |-> symbol, quantity |-> -quantity,
                        price |-> sell_price, timestamp |-> ts,
                        rationale |-> rationale]
    IN  IF DictGet(a.holdings, symbol, 0) < quantity
        THEN M(a, "InsufficientShares")
        ELSE IF symbol \notin DOMAIN a.holdings THEN M(a, "KeyError")
        ELSE IF price = 0 THEN M(a, "UnknownSymbol")
        ELSE M([a EXCEPT
                  !.holdings = IF left = 0 THEN DictDel(@, symbol)
                               ELSE DictSet(@, symbol, left),
                  !.transactions = Append(@, transaction),
                  !.balance = @ + total_proceeds], "ok")

buy_shares_mutate(a, m, symbol, quantity, rationale, ts) ==
    LET price == get_share_price(m, symbol)
        buy_price == price * (Milli + SPREAD)
        total_cost == buy_price * quantity
        transaction == [symbol |-> symbol, quantity |-> quantity,
                        price |-> buy_price, timestamp |-> ts,
                        rationale |-> rationale]
    IN  IF total_cost > a.balance THEN M(a, "InsufficientFunds")
        ELSE IF price = 0 THEN M(a, "UnknownSymbol")
        ELSE M([a EXCEPT
                  !.holdings = DictSet(@, symbol,
                                       DictGet(@, symbol, 0) + quantity),
                  !.transactions = Append(@, transaction),
                  !.balance = @ - total_cost], "ok")

(* the sale is recorded with the quantity unsigned *)
sell_shares_mutate_unsigned(a, m, symbol, quantity, rationale, ts) ==
    LET price == get_share_price(m, symbol)
        sell_price == price * (Milli - SPREAD)
        total_proceeds == sell_price * quantity
        left == a.holdings[symbol] - quantity
        transaction == [symbol |-> symbol, quantity |-> quantity,
                        price |-> sell_price, timestamp |-> ts,
                        rationale |-> rationale]
    IN  IF DictGet(a.holdings, symbol, 0) < quantity
        THEN M(a, "InsufficientShares")
        ELSE IF symbol \notin DOMAIN a.holdings THEN M(a, "KeyError")
        ELSE M([a EXCEPT
                  !.holdings = IF left = 0 THEN DictDel(@, symbol)
                               ELSE DictSet(@, symbol, left),
                  !.transactions = Append(@, transaction),
                  !.balance = @ + total_proceeds], "ok")

sell_shares_mutate(a, m, symbol, quantity, rationale, ts) ==
    LET price == get_share_price(m, symbol)
        sell_price == price * (Milli - SPREAD)
        total_proceeds == sell_price * quantity
        left == a.holdings[symbol] - quantity
        transaction == [symbol |-> symbol, quantity |-> -quantity,
                        price |-> sell_price, timestamp |-> ts,
                        rationale |-> rationale]
    IN  IF DictGet(a.holdings, symbol, 0) < quantity
        THEN M(a, "InsufficientShares")
        ELSE IF symbol \notin DOMAIN a.holdings THEN M(a, "KeyError")
        ELSE M([a EXCEPT
                  !.holdings = IF left = 0 THEN DictDel(@, symbol)
                               ELSE DictSet(@, symbol, left),
                  !.transactions = Append(@, transaction),
                  !.balance = @ + total_proceeds], "ok")

(* report skips a value equal to the last stored one, as record_snapshot   *)
(* does                                                                    *)
report_mutate_dedup(a, m, ts) ==
    LET portfolio_value == calculate_portfolio_value(a, m)
        series == a.portfolio_value_time_series
    IN  IF series = <<>> \/ series[Len(series)][2] # portfolio_value
        THEN M([a EXCEPT !.portfolio_value_time_series =
                           Append(@, <<ts, portfolio_value>>)], "ok")
        ELSE M(a, "ok")

report_mutate(a, m, ts) ==
    LET portfolio_value == calculate_portfolio_value(a, m)
    IN  M([a EXCEPT !.portfolio_value_time_series =
                      Append(@, <<ts, portfolio_value>>)], "ok")

reset_mutate(a, strategy) ==
    M([a EXCEPT !.balance = INITIAL_BALANCE * Milli,
                !.strategy = strategy,
                !.holdings = EmptyDict,
                !.transactions = <<>>,
                !.portfolio_value_time_series = <<>>], "ok")

change_strategy_mutate(a, strategy) ==
    M([a EXCEPT !.strategy = strategy], "ok")

(* record_snapshot appends whenever it is called, as report does *)
record_snapshot_mutate_always(a, m, when, now) ==
    LET ts == IF when # None THEN when ELSE now
        value == calculate_portfolio_value(a, m)
    IN  M([a EXCEPT !.portfolio_value_time_series =
                      Append(@, <<ts, value>>)], "ok")

(* "skip": the value equals the last stored one, nothing is appended and   *)
(* nothing is saved or logged.                                             *)
record_snapshot_mutate(a, m, when, now) ==
    LET ts == IF when # None THEN when ELSE now
        value == calculate_portfolio_value(a, m)
        series == a.portfolio_value_time_series
    IN  IF series = <<>> \/ series[Len(series)][2] # value
        THEN M([a EXCEPT !.portfolio_value_time_series =
                           Append(@, <<ts, value>>)], "ok")
        ELSE M(a, "skip")

----------------------------------------------------------------------------
(* Handlers.  fail is the index of the I/O step of the call that raises    *)
(* (0: none); the I/O steps of a call are its save() and write_log calls,  *)
(* counted in execution order.                                             *)

(* self.save() alone *)
Saved(r, d, fail) ==
    IF r.out # "ok" THEN R(r.acct, d, r.out)
    ELSE IF fail = 1 THEN R(r.acct, d, "PersistenceFailure")
    ELSE R(r.acct, save(r.acct, d), "ok")

(* self.save() followed by write_log(...) *)
SavedLogged(r, d, fail) ==
    IF r.out # "ok" THEN R(r.acct, d, r.out)
    ELSE IF fail = 1 THEN R(r.acct, d, "PersistenceFailure")
    ELSE IF fail = 2 THEN R(r.acct, save(r.acct, d), "LogFailure")
    ELSE R(r.acct, save(r.acct, d), "ok")

report(a, d, m, ts, fail) == SavedLogged(report_mutate(a, m, ts), d, fail)

(* the closing report skips a value equal to the last stored one *)
SavedLoggedReported_dedup(r, d, m, ts, fail) ==
    LET first == SavedLogged(r, d, fail)
    IN  IF first.out # "ok" THEN first
        ELSE SavedLogged(report_mutate_dedup(first.acct, m, ts), first.db,
                         IF fail = 0 THEN 0 ELSE fail - 2)

(* self.save(); write_log(...); return ... + self.report() *)
SavedLoggedReported(r, d, m, ts, fail) ==
    LET first == SavedLogged(r, d, fail)
    IN  IF first.out # "ok" THEN first
        ELSE report(first.acct, first.db, m, ts,
                    IF fail = 0 THEN 0 ELSE fail - 2)

deposit(a, d, amount, fail) == Saved(deposit_mutate(a, amount), d, fail)

withdraw(a, d, amount, fail) == Saved(withdraw_mutate(a, amount), d, fail)

buy_shares(a, d, m, symbol, quantity, rationale, ts, fail) ==
    SavedLoggedReported(
        buy_shares_mutate(a, m, symbol, quantity, rationale, ts), d, m, ts, fail)

sell_shares(a, d, m, symbol, quantity, rationale, ts, fail) ==
    SavedLoggedReported(
        sell_shares_mutate(a, m, symbol, quantity, rationale, ts), d, m, ts, fail)

reset(a, d, strategy, fail) == Saved(reset_mutate(a, strategy), d, fail)

change_strategy(a, d, strategy, fail) ==
    SavedLogged(change_strategy_mutate(a, strategy), d, fail)

record_snapshot(a, d, m, when, now, fail) ==
    LET r == record_snapshot_mutate(a, m, when, now)
    IN  IF r.out = "skip" THEN R(r.acct, d, "ok")
        ELSE SavedLogged(r, d, fail)

----------------------------------------------------------------------------
(* The sequential ledger: one Account object, called by one caller *)

(* The day cache and the resolver at rest *)
NoCaller == [pc |-> "done", date |-> "", data |-> EmptyDict, out |-> "ok"]

CacheIdle ==
    /\ lru = <<>>
    /\ market_table = [d \in Dates |-> EmptyDict]
    /\ nLookups = 0
    /\ nFetches = [d \in Dates |-> 0]
    /\ callers = <<>>

NoPx == [symbol |-> "", out |-> "none"]

PxIdle == px = NoPx

NoNz == [symbol |-> <<>>, out |-> "none"]

NzIdle == nz = NoNz

NoCd == [out |-> "none"]

CdIdle == cd = NoCd

NoCall == [op |-> "none", symbol |-> "", quantity |-> 0, amount |-> 0,
           strategy |-> "", when |-> None, price |-> 0, fail |-> 0,
           out |-> "ok"]

Init ==
    /\ acct = get(EmptyDict, Name).acct
    /\ db = get(EmptyDict, Name).db
    /\ market \in [Symbols -> Prices]
    /\ clock = 0
    /\ last = NoCall
    /\ nSteps = 0
    /\ procs = <<>>
    /\ CacheIdle
    /\ PxIdle
    /\ NzIdle
    /\ CdIdle

Return(res, call, max) ==
    /\ nSteps < max
    /\ acct' = res.acct
    /\ db' = res.db
    /\ last' = [call EXCEPT !.out = res.out]
    /\ nSteps' = nSteps + 1
    /\ UNCHANGED <<market, clock, procs, cacheVars, pureVars>>

Get ==
    /\ acct' = get(db, Name).acct
    /\ db' = get(db, Name).db
    /\ last' = [NoCall EXCEPT !.op = "get"]
    /\ UNCHANGED <<market, clock, nSteps, procs, cacheVars, pureVars>>

(* F: the I/O steps that may fail in this call (0: none fails) *)

Deposit(F, max) ==
    \E amount \in DepositAmounts, fail \in F \cap 0..1 :
        Return(deposit(acct, db, amount, fail),
               [NoCall EXCEPT !.op = "deposit", !.amount = amount,
                              !.fail = fail], max)

Withdraw(F, max) ==
    \E amount \in WithdrawAmounts, fail \in F \cap 0..1 :
        Return(withdraw(acct, db, amount, fail),
               [NoCall EXCEPT !.op = "withdraw", !.amount = amount,
                              !.fail = fail], max)

BuyShares(F, max) ==
    \E symbol \in Symbols, quantity \in Quantities, fail \in F \cap 0..4 :
        Return(buy_shares(acct, db, market, symbol, quantity, "t", clock, fail),
               [NoCall EXCEPT !.op = "buy", !.symbol = symbol,
                              !.quantity = quantity,
                              !.price = market[symbol],
                              !.fail = fail], max)

SellShares(F, max) ==
    \E symbol \in Symbols, quantity \in Quantities, fail \in F \cap 0..4 :
        Return(sell_shares(acct, db, market, symbol, quantity, "t", clock, fail),
               [NoCall EXCEPT !.op = "sell", !.symbol = symbol,
                              !.quantity = quantity,
                              !.price = market[symbol],
                              !.fail = fail], max)

Report(F, max) ==
    \E fail \in F \cap 0..2 :
        Return(report(acct, db, market, clock, fail),
               [NoCall EXCEPT !.op = "report", !.fail = fail], max)

RecordSnapshot(F, max) ==
    \E when \in Whens, fail \in F \cap 0..2 :
        Return(record_snapshot(acct, db, market, when, clock, fail),
               [NoCall EXCEPT !.op = "snapshot", !.when = when, !.fail = fail],
               max)

Reset(F, max) ==
    \E strategy \in Strategies, fail \in F \cap 0..1 :
        Return(reset(acct, db, strategy, fail),
               [NoCall EXCEPT !.op = "reset", !.strategy = strategy,
                              !.fail = fail], max)

ChangeStrategy(F, max) ==
    \E strategy \in Strategies, fail \in F \cap 0..2 :
        Return(change_strategy(acct, db, strategy, fail),
               [NoCall EXCEPT !.op = "change_strategy", !.strategy = strategy,
                              !.fail = fail], max)

(* The environment: time passes, prices move *)

Tick(max) ==
    /\ nSteps < max
    /\ clock' = clock + 1
    /\ nSteps' = nSteps + 1
    /\ last' = [NoCall EXCEPT !.op = "tick"]
    /\ UNCHANGED <<acct, db, market, procs, cacheVars, pureVars>>

MarketMove(max) ==
    /\ \E symbol \in Symbols, price \in Prices :
          /\ market[symbol] # price
          /\ market' = [market EXCEPT ![symbol] = price]
    /\ nSteps < max
    /\ nSteps' = nSteps + 1
    /\ last' = [NoCall EXCEPT !.op = "move"]
    /\ UNCHANGED <<acct, db, clock, procs, cacheVars, pureVars>>

(* Every I/O step succeeds *)
Next ==
    \/ Get
    \/ Deposit({0}, MaxSteps)
    \/ Withdraw({0}, MaxSteps)
    \/ BuyShares({0}, MaxSteps)
    \/ SellShares({0}, MaxSteps)
    \/ Report({0}, MaxSteps)
    \/ RecordSnapshot({0}, MaxSteps)
    \/ Reset({0}, MaxSteps)
    \/ ChangeStrategy({0}, MaxSteps)
    \/ Tick(MaxSteps)
    \/ MarketMove(MaxSteps)

Spec == Init /\ [][Next]_vars

(* write_account and write_log may raise at any I/O step *)
NextFault ==
    \/ Get
    \/ Deposit(0..4, MaxFaultSteps)
    \/ Withdraw(0..4, MaxFaultSteps)
    \/ BuyShares(0..4, MaxFaultSteps)
    \/ SellShares(0..4, MaxFaultSteps)
    \/ Report(0..4, MaxFaultSteps)
    \/ RecordSnapshot(0..4, MaxFaultSteps)
    \/ Reset(0..4, MaxFaultSteps)
    \/ ChangeStrategy(0..4, MaxFaultSteps)
    \/ Tick(MaxFaultSteps)
    \/ MarketMove(MaxFaultSteps)

SpecFault == Init /\ [][NextFault]_vars

(* One caller buys and, with nothing in between, sells the same quantity *)
(* of the same symbol: buy_shares returned, then sell_shares is called on  *)
(* the same object at the same base price.                                 *)
RoundTrip(max) ==
    \E symbol \in Symbols, quantity \in Quantities :
        LET b == buy_shares(acct, db, market, symbol, quantity, "t", clock, 0)
            s == sell_shares(b.acct, b.db, market, symbol, quantity, "t",
                             clock, 0)
        IN  /\ b.out = "ok"
            /\ Return(s, [NoCall EXCEPT !.op = "roundtrip", !.symbol = symbol,
                                        !.quantity = quantity,
                                        !.price = market[symbol]], max)

(* Any ledger history of at most MaxTripSteps steps, round trips included *)
NextTrip ==
    \/ Get
    \/ Deposit({0}, MaxTripSteps)
    \/ Withdraw({0}, MaxTripSteps)
    \/ BuyShares({0}, MaxTripSteps)
    \/ SellShares({0}, MaxTripSteps)
    \/ Report({0}, MaxTripSteps)
    \/ RecordSnapshot({0}, MaxTripSteps)
    \/ Reset({0}, MaxTripSteps)
    \/ ChangeStrategy({0}, MaxTripSteps)
    \/ Tick(MaxTripSteps)
    \/ MarketMove(MaxTripSteps)
    \/ RoundTrip(MaxTripSteps)

SpecTrip == Init /\ [][NextTrip]_vars

----------------------------------------------------------------------------
(* Properties of the sequential ledger *)

Held(h, s) == IF s \in DOMAIN h THEN h[s] ELSE 0

IsCall(ops) == last'.op \in ops

Unchanged == acct' = acct /\ db' = db

LastTx(a) == a.transactions[Len(a.transactions)]

(* C1: the balance of the account is never negative, whatever sequence of  *)
(* buy, sell, deposit and withdraw calls was made, with any integer        *)
(* quantities and amounts and any resolved prices.                         *)
C1_BalanceNonNegative == acct.balance >= 0

(* C2: every symbol present in holdings maps to a quantity > 0; a          *)
(* quantity of 0 or a negative quantity is never stored.                   *)
C2_HoldingsPositive == \A s \in DOMAIN acct.holdings : acct.holdings[s] > 0

(* C5: a call of buy, sell, deposit or withdraw that is rejected           *)
(* (InsufficientFunds, UnknownSymbol, InsufficientShares, ValidationError, *)
(* or the KeyError of a sale of a symbol not held) leaves the account in   *)
(* memory and the record in the store exactly as they were before the call.*)
C5_RejectionChangesNothing ==
    [][(IsCall({"buy", "sell", "deposit", "withdraw"})
        /\ last'.out \in Rejections) => Unchanged]_vars

(* C5 witness: a buy was rejected for insufficient funds on an account     *)
(* that already holds shares and has a transaction log.                    *)
C5_Witness ==
    /\ last.op = "buy"
    /\ last.out = "InsufficientFunds"
    /\ acct.transactions # <<>>
    /\ DOMAIN acct.holdings # {}

(* C6: buy and sell with a quantity <= 0 fail and change nothing: no       *)
(* holdings entry is created or modified, the balance is unchanged and no  *)
(* transaction is appended.  (Every rejection of the code is a ValueError, *)
(* so any rejection counts as the validation error of the claim.)          *)
C6_NonPositiveQuantityRejected ==
    [][(IsCall({"buy", "sell"}) /\ last'.quantity <= 0)
       => (last'.out \in Rejections /\ Unchanged)]_vars

(* C7: deposit and withdraw with an amount <= 0 are rejected, withdraw      *)
(* with amount > balance fails with InsufficientFunds, and a withdraw with *)
(* amount <= 0 never increases the balance.  (Every rejection of the code  *)
(* is a ValueError, so any rejection counts as the validation error.)      *)
C7_AmountValidated ==
    [][IsCall({"deposit", "withdraw"}) =>
         /\ last'.amount <= 0 =>
              (last'.out \in Rejections /\ acct'.balance <= acct.balance)
         /\ (last'.op = "withdraw" /\ last'.amount > 0
             /\ last'.amount > acct.balance) =>
              last'.out = "InsufficientFunds"]_vars

(* C8: for a positive quantity a buy is decided by the base price and the  *)
(* balance alone: UnknownSymbol when the base price is 0 (whatever the     *)
(* balance), InsufficientFunds when the base price is positive and the     *)
(* cost exceeds the balance, success otherwise.                            *)
C8_BuyDecision ==
    [][(IsCall({"buy"}) /\ last'.quantity > 0) =>
         last'.out =
            IF last'.price = 0 THEN "UnknownSymbol"
            ELSE IF last'.price * (Milli + SPREAD) * last'.quantity
                      > acct.balance
                 THEN "InsufficientFunds"
                 ELSE "ok"]_vars

(* C9: a successful buy of q shares of a symbol at base price p adds       *)
(* exactly q to holdings[symbol] (creating the entry), subtracts exactly   *)
(* p*(1+SPREAD)*q from the balance, appends exactly one transaction with   *)
(* quantity q and price p*(1+SPREAD), and leaves every other holdings      *)
(* entry, every earlier transaction and the strategy unchanged.            *)
C9_BuyEffect ==
    [][(IsCall({"buy"}) /\ last'.out = "ok") =>
         LET sym == last'.symbol
             q == last'.quantity
             p == last'.price
         IN  /\ sym \in DOMAIN acct'.holdings
             /\ acct'.holdings[sym] = Held(acct.holdings, sym) + q
             /\ DOMAIN acct'.holdings = DOMAIN acct.holdings \cup {sym}
             /\ \A s \in DOMAIN acct.holdings \ {sym} :
                    acct'.holdings[s] = acct.holdings[s]
             /\ acct'.balance = acct.balance - p * (Milli + SPREAD) * q
             /\ Len(acct'.transactions) = Len(acct.transactions) + 1
             /\ SubSeq(acct'.transactions, 1, Len(acct.transactions))
                    = acct.transactions
             /\ LastTx(acct').symbol = sym
             /\ LastTx(acct').quantity = q
             /\ LastTx(acct').price = p * (Milli + SPREAD)
             /\ acct'.strategy = acct.strategy]_vars

(* C9 witness: the example of the claim, 10 shares bought at base price    *)
(* 100 from a balance of 10000 give a balance of 8998 and holdings {sym:10}*)
(* with one transaction of quantity 10 at price 100.2.                     *)
C9_Witness ==
    /\ last.op = "buy" /\ last.out = "ok"
    /\ last.quantity = 10 /\ last.price = 100
    /\ acct.balance = 8998 * Milli
    /\ DOMAIN acct.holdings = {last.symbol}
    /\ acct.holdings[last.symbol] = 10
    /\ Len(acct.transactions) = 1
    /\ acct.transactions[1].price = 100200

(* C10: with no I/O failure, a sale of q shares with                       *)
(* 0 < q <= holdings[symbol] succeeds for every base price p >= 0, the     *)
(* sentinel 0 included: holdings[symbol] decreases by q and the key is     *)
(* removed when it reaches 0, the balance increases by p*(1-SPREAD)*q, and *)
(* one transaction with quantity -q and price p*(1-SPREAD) is appended.    *)
C10_SellEffect ==
    [][(/\ IsCall({"sell"})
        /\ last'.fail = 0
        /\ last'.quantity > 0
        /\ last'.quantity <= Held(acct.holdings, last'.symbol)) =>
         LET sym == last'.symbol
             q == last'.quantity
             p == last'.price
         IN  /\ last'.out = "ok"
             /\ Held(acct'.holdings, sym) = acct.holdings[sym] - q
             /\ sym \in DOMAIN acct'.holdings <=> acct.holdings[sym] # q
             /\ acct'.balance = acct.balance + p * (Milli - SPREAD) * q
             /\ Len(acct'.transactions) = Len(acct.transactions) + 1
             /\ SubSeq(acct'.transactions, 1, Len(acct.transactions))
                    = acct.transactions
             /\ LastTx(acct').symbol = sym
             /\ LastTx(acct').quantity = -q
             /\ LastTx(acct').price = p * (Milli - SPREAD)]_vars

(* C10 witness: all shares of a symbol were sold at the sentinel price 0:  *)
(* the sale succeeded, the key is gone and the transaction has price 0.    *)
C10_Witness ==
    /\ last.op = "sell" /\ last.out = "ok"
    /\ last.quantity > 0 /\ last.price = 0
    /\ last.symbol \notin DOMAIN acct.holdings
    /\ LastTx(acct).quantity = -last.quantity
    /\ LastTx(acct).price = 0

(* C4: when write_account raises at a persist step of a ledger-mutating    *)
(* call, the call fails and the account in memory (balance, holdings,      *)
(* transaction log, time series) is what it was before the call.           *)
C4_PersistFailureRollsBack ==
    [][(/\ IsCall({"buy", "sell", "deposit", "withdraw", "snapshot",
                   "report", "reset", "change_strategy"})
        /\ last'.out = "PersistenceFailure") =>
         /\ acct'.balance = acct.balance
         /\ acct'.holdings = acct.holdings
         /\ acct'.transactions = acct.transactions
         /\ acct'.portfolio_value_time_series
                = acct.portfolio_value_time_series]_vars

(* C11: buying q shares of a symbol and immediately selling q shares of    *)
(* it at the same base price p changes the balance by exactly              *)
(* -2*q*p*SPREAD and leaves holdings exactly as they were before the buy   *)
(* (q > 0, both calls succeed).                                            *)
C11_RoundTrip ==
    [][(IsCall({"roundtrip"}) /\ last'.quantity > 0 /\ last'.out = "ok") =>
         /\ acct'.balance
                = acct.balance - 2 * last'.quantity * last'.price * SPREAD
         /\ acct'.holdings = acct.holdings]_vars

(* the portfolio value of the object before the step, at current prices *)
ValueNow ==
    acct.balance + Milli * SumOver(acct.holdings, DOMAIN acct.holdings, market)

Series(a) == a.portfolio_value_time_series

(* C12: record_snapshot appends a point iff the series is empty or the     *)
(* current portfolio value differs from the last stored value; when the    *)
(* value is equal the object and the store are left as they were; a        *)
(* record_snapshot that directly follows a record_snapshot appends nothing.*)
C12_SnapshotAppendsIffChanged ==
    [][IsCall({"snapshot"}) =>
         LET ts == IF last'.when # None THEN last'.when ELSE clock
         IN  /\ IF \/ Series(acct) = <<>>
                    \/ Series(acct)[Len(Series(acct))][2] # ValueNow
                 THEN /\ acct' = [acct EXCEPT !.portfolio_value_time_series =
                                               Append(@, <<ts, ValueNow>>)]
                      /\ db'[Name] = acct'
                 ELSE Unchanged
             /\ last.op = "snapshot" => Series(acct') = Series(acct)]_vars

(* C12 witness: a record_snapshot without explicit timestamp returned and  *)
(* the last stored point is older than the call: the call appended nothing.*)
C12_Witness ==
    /\ last.op = "snapshot" /\ last.out = "ok" /\ last.when = None
    /\ Series(acct) # <<>>
    /\ Series(acct)[Len(Series(acct))][1] < clock
    /\ Series(acct)[Len(Series(acct))][2] = ValueNow

(* C13: every report appends exactly one point (now, portfolio value),     *)
(* equal to the last stored value or not, and changes no other field; the  *)
(* report at the end of a successful buy or sell appends exactly one point.*)
C13_ReportAlwaysAppends ==
    [][/\ IsCall({"report"}) =>
            acct' = [acct EXCEPT !.portfolio_value_time_series =
                                   Append(@, <<clock, ValueNow>>)]
       /\ (IsCall({"buy", "sell"}) /\ last'.out = "ok") =>
            /\ Len(Series(acct')) = Len(Series(acct)) + 1
            /\ SubSeq(Series(acct'), 1, Len(Series(acct))) = Series(acct)
            /\ Series(acct')[Len(Series(acct'))][1] = clock]_vars

(* C13 witness: a report appended a point whose value equals the value of  *)
(* the point before it.                                                    *)
C13_Witness ==
    /\ last.op = "report" /\ last.out = "ok"
    /\ Len(Series(acct)) >= 2
    /\ Series(acct)[Len(Series(acct))][2]
           = Series(acct)[Len(Series(acct)) - 1][2]

(* the sum of the quantities of the first n transactions in symbol s *)
RECURSIVE Net(_, _, _)
Net(transactions, n, s) ==
    IF n = 0 THEN 0
    ELSE Net(transactions, n - 1, s)
         + (IF transactions[n].symbol = s THEN transactions[n].quantity ELSE 0)

(* C29: in every reachable state, for every symbol, the held quantity (0   *)
(* when the symbol is not a key of holdings) equals the sum of the         *)
(* quantities of the transactions in that symbol since the last reset, in  *)
(* the object and in the stored record.                                    *)
C29_HoldingsAreNetOfTransactions ==
    /\ \A s \in Symbols :
           Held(acct.holdings, s)
               = Net(acct.transactions, Len(acct.transactions), s)
    /\ Name \in DOMAIN db =>
         \A s \in Symbols :
             Held(db[Name].holdings, s)
                 = Net(db[Name].transactions, Len(db[Name].transactions), s)

(* a position bought in two trades and then sold in part *)
C29_Witness ==
    /\ last.op = "sell" /\ last.out = "ok" /\ last.quantity > 0
    /\ Len(acct.transactions) >= 3
    /\ Held(acct.holdings, last.symbol) > 0
    /\ db[Name] = acct

(* C30: a successful buy or sell appends exactly one transaction and       *)
(* exactly one point to the value series, whether or not the value equals  *)
(* the last stored value; a rejected buy or sell appends neither.          *)
C30_TradeAppendsOnePoint ==
    [][IsCall({"buy", "sell"}) =>
         /\ last'.out = "ok" =>
              /\ Len(acct'.transactions) = Len(acct.transactions) + 1
              /\ Len(Series(acct')) = Len(Series(acct)) + 1
              /\ Len(Series(db'[Name])) = Len(Series(acct)) + 1
         /\ last'.out \in Rejections =>
              /\ Series(acct') = Series(acct)
              /\ acct'.transactions = acct.transactions
              /\ db' = db]_vars

(* a successful trade of a positive quantity whose point repeats the value *)
(* of the point before it                                                  *)
C30_Witness ==
    /\ last.op \in {"buy", "sell"} /\ last.out = "ok" /\ last.quantity > 0
    /\ Len(Series(acct)) >= 2
    /\ Series(acct)[Len(Series(acct))][2]
           = Series(acct)[Len(Series(acct)) - 1][2]

(* C14: the timestamps of the value series are non-decreasing in list      *)
(* order in every reachable state.                                         *)
C14_TimestampsNonDecreasing ==
    \A i \in 1..(Len(Series(acct)) - 1) :
        Series(acct)[i][1] <= Series(acct)[i + 1][1]

(* C15: the transaction log is append-only: for every call other than      *)
(* reset the log before the call is a prefix of the log after it, its      *)
(* length grows by exactly 1 on a successful buy or sell and by 0 on every *)
(* other call.                                                             *)
C15_LogAppendOnly ==
    [][IsCall({"buy", "sell", "deposit", "withdraw", "snapshot", "report",
               "change_strategy"}) =>
         /\ Len(acct'.transactions) >= Len(acct.transactions)
         /\ SubSeq(acct'.transactions, 1, Len(acct.transactions))
                = acct.transactions
         /\ Len(acct'.transactions) = Len(acct.transactions) +
               (IF last'.op \in {"buy", "sell"} /\ last'.out = "ok"
                THEN 1 ELSE 0)]_vars

(* C23: a write_log that raises never fails a ledger-mutating call: buy,   *)
(* sell, report, record_snapshot and change_strategy still return normally *)
(* and their change is persisted.                                          *)
C23_LogFailureTolerated ==
    [][IsCall({"buy", "sell", "report", "snapshot", "change_strategy"}) =>
         /\ last'.out # "LogFailure"
         /\ last'.out = "ok" => db'[Name] = acct']_vars

----------------------------------------------------------------------------
(* Concurrent callers on one account name.  Each caller loads its own      *)
(* Account object with Account.get (a read of the store), runs the         *)
(* in-memory part of one handler on it, and persists it with save() (a     *)
(* write of the whole record); buy and sell then run report(), which       *)
(* appends a point and saves again.  The code takes no lock.               *)

Procs == {1, 2}

ConcCalls ==
    {[NoCall EXCEPT !.op = "deposit", !.amount = 1000000],
     [NoCall EXCEPT !.op = "withdraw", !.amount = 1000000],
     [NoCall EXCEPT !.op = "report"],
     [NoCall EXCEPT !.op = "snapshot"],
     [NoCall EXCEPT !.op = "reset", !.strategy = "momentum"]}
    \cup {[NoCall EXCEPT !.op = o, !.symbol = s, !.quantity = 10] :
            o \in {"buy", "sell"}, s \in Symbols}

(* the in-memory part of the handler of call c *)
MutateOf(a, m, now, c) ==
    CASE c.op = "deposit" -> deposit_mutate(a, c.amount)
      [] c.op = "withdraw" -> withdraw_mutate(a, c.amount)
      [] c.op = "buy" ->
            buy_shares_mutate(a, m, c.symbol, c.quantity, "t", now)
      [] c.op = "sell" ->
            sell_shares_mutate(a, m, c.symbol, c.quantity, "t", now)
      [] c.op = "report" -> report_mutate(a, m, now)
      [] c.op = "snapshot" -> record_snapshot_mutate(a, m, c.when, now)
      [] c.op = "reset" -> reset_mutate(a, c.strategy)

(* the whole handler of call c, run alone on a freshly loaded object *)
HandlerOf(d, m, now, c) ==
    LET a == get(d, Name).acct
    IN  CASE c.op = "deposit" -> deposit(a, d, c.amount, 0)
          [] c.op = "withdraw" -> withdraw(a, d, c.amount, 0)
          [] c.op = "buy" ->
                buy_shares(a, d, m, c.symbol, c.quantity, "t", now, 0)
          [] c.op = "sell" ->
                sell_shares(a, d, m, c.symbol, c.quantity, "t", now, 0)
          [] c.op = "report" -> report(a, d, m, now, 0)
          [] c.op = "snapshot" -> record_snapshot(a, d, m, c.when, now, 0)
          [] c.op = "reset" -> reset(a, d, c.strategy, 0)

InitConc ==
    /\ acct = get(EmptyDict, Name).acct
    /\ db = get(EmptyDict, Name).db
    /\ market \in [Symbols -> Prices]
    /\ clock = 0
    /\ last = NoCall
    /\ nSteps = 0
    /\ procs = [p \in Procs |->
                  [pc |-> "idle", call |-> NoCall,
                   obj |-> get(EmptyDict, Name).acct]]
    /\ CacheIdle
    /\ PxIdle
    /\ NzIdle
    /\ CdIdle

(* Account.get(name) *)
Load(p) ==
    /\ procs[p].pc = "idle"
    /\ \E c \in ConcCalls :
         procs' = [procs EXCEPT ![p] = [pc |-> "loaded", call |-> c,
                                        obj |-> get(db, Name).acct]]
    /\ UNCHANGED <<acct, db, market, clock, last, nSteps, cacheVars, pureVars>>

(* the handler up to its first save(), or its raise *)
Mutate(p) ==
    /\ procs[p].pc = "loaded"
    /\ LET r == MutateOf(procs[p].obj, market, clock, procs[p].call)
       IN  procs' = [procs EXCEPT
                       ![p].obj = r.acct,
                       ![p].pc = IF r.out = "ok" THEN "dirty" ELSE "done"]
    /\ UNCHANGED <<acct, db, market, clock, last, nSteps, cacheVars, pureVars>>

(* self.save() *)
Persist(p) ==
    /\ procs[p].pc = "dirty"
    /\ db' = save(procs[p].obj, db)
    /\ procs' = [procs EXCEPT
                   ![p].pc = IF procs[p].call.op \in {"buy", "sell"}
                             THEN "reporting" ELSE "done"]
    /\ UNCHANGED <<acct, market, clock, last, nSteps, cacheVars, pureVars>>

(* self.report() at the end of buy_shares and sell_shares: append *)
ReportAppend(p) ==
    /\ procs[p].pc = "reporting"
    /\ procs' = [procs EXCEPT
                   ![p].obj = report_mutate(procs[p].obj, market, clock).acct,
                   ![p].pc = "appended"]
    /\ UNCHANGED <<acct, db, market, clock, last, nSteps, cacheVars, pureVars>>

(* self.report(): self.save() *)
ReportPersist(p) ==
    /\ procs[p].pc = "appended"
    /\ db' = save(procs[p].obj, db)
    /\ procs' = [procs EXCEPT ![p].pc = "done"]
    /\ UNCHANGED <<acct, market, clock, last, nSteps, cacheVars, pureVars>>

NextConc ==
    \E p \in Procs :
        \/ Load(p)
        \/ Mutate(p)
        \/ Persist(p)
        \/ ReportAppend(p)
        \/ ReportPersist(p)

SpecConc == InitConc /\ [][NextConc]_vars

(* the store after call c1 and then call c2, each run alone *)
Serial(c1, c2) ==
    LET d0 == get(EmptyDict, Name).db
        d1 == HandlerOf(d0, market, clock, c1).db
    IN  HandlerOf(d1, market, clock, c2).db

(* C3: when two mutating calls on the same account name, each from its own *)
(* loaded Account object, have both completed, the persisted record        *)
(* reflects both: it is the record one of the two serial orders of the two *)
(* calls leaves, whatever the interleaving of their read, mutate and       *)
(* persist steps.                                                          *)
C3_NoLostUpdate ==
    (\A p \in Procs : procs[p].pc = "done") =>
        db \in {Serial(procs[1].call, procs[2].call),
                Serial(procs[2].call, procs[1].call)}

----------------------------------------------------------------------------
(* The day cache: get_market_for_prior_date under functools.lru_cache,     *)
(* called by concurrent callers of one process.  lru holds the cached      *)
(* entries, least recently used first.  The wrapper looks the key up and   *)
(* stores the result of the body under its lock, and runs the body         *)
(* (read_market, the bulk fetch, write_market) outside of it.              *)

maxsize == 2

Callers == {1, 2}

(* the maps get_all_share_prices_polygon_eod may return *)
EodMaps == {EmptyDict, DictSet(EmptyDict, "AAPL", 100),
            DictSet(EmptyDict, "AAPL", 101)}

(* The store's market table *)
read_market(t, date) == t[date]

write_market(t, date, data) == [t EXCEPT ![date] = data]

Keys(c) == {c[i].key : i \in 1..Len(c)}

Index(c, key) == CHOOSE i \in 1..Len(c) : c[i].key = key

Without(c, i) == SubSeq(c, 1, i - 1) \o SubSeq(c, i + 1, Len(c))

lru_value(c, key) == c[Index(c, key)].value

(* a hit that does not refresh the recency of its key *)
lru_hit_no_touch(c, key) == c

(* a hit: the entry becomes the most recently used *)
lru_hit(c, key) == Append(Without(c, Index(c, key)), c[Index(c, key)])

(* a store that never evicts *)
lru_store_unbounded(c, key, value) ==
    IF key \in Keys(c) THEN c
    ELSE Append(c, [key |-> key, value |-> value])

(* the result of the body is stored, unless another caller stored the key  *)
(* meanwhile; a full cache first drops its least recently used entry       *)
lru_store(c, key, value) ==
    IF key \in Keys(c) THEN c
    ELSE IF Len(c) >= maxsize
         THEN Append(Tail(c), [key |-> key, value |-> value])
         ELSE Append(c, [key |-> key, value |-> value])

InitCache ==
    /\ acct = get(EmptyDict, Name).acct
    /\ db = get(EmptyDict, Name).db
    /\ market = [s \in Symbols |-> 0]
    /\ clock = 0
    /\ last = NoCall
    /\ nSteps = 0
    /\ procs = <<>>
    /\ lru = <<>>
    /\ market_table = [d \in Dates |-> EmptyDict]
    /\ nLookups = 0
    /\ nFetches = [d \in Dates |-> 0]
    /\ callers = [p \in Callers |-> NoCaller]
    /\ PxIdle
    /\ NzIdle
    /\ CdIdle

(* get_market_for_prior_date(today): the lookup of the wrapper *)
Lookup(p) ==
    /\ callers[p].pc = "done"
    /\ nLookups < MaxLookups
    /\ nLookups' = nLookups + 1
    /\ \E today \in Dates :
         IF today \in Keys(lru)
         THEN /\ lru' = lru_hit(lru, today)
              /\ callers' = [callers EXCEPT ![p] =
                    [pc |-> "done", date |-> today,
                     data |-> lru_value(lru, today), out |-> "ok"]]
         ELSE /\ lru' = lru
              /\ callers' = [callers EXCEPT ![p] =
                    [pc |-> "miss", date |-> today, data |-> EmptyDict,
                     out |-> "ok"]]
    /\ UNCHANGED <<market_table, nFetches>>
    /\ UNCHANGED <<ledgerVars, pureVars>>

(* market_data = read_market(today); if not market_data: ... *)
ReadMarket(p) ==
    /\ callers[p].pc = "miss"
    /\ LET market_data == read_market(market_table, callers[p].date)
       IN  callers' = [callers EXCEPT
                         ![p].data = market_data,
                         ![p].pc = IF market_data = EmptyDict
                                   THEN "fetch" ELSE "store"]
    /\ UNCHANGED <<lru, market_table, nLookups, nFetches>>
    /\ UNCHANGED <<ledgerVars, pureVars>>

(* market_data = get_all_share_prices_polygon_eod() *)
Fetch(p) ==
    /\ callers[p].pc = "fetch"
    /\ \E market_data \in EodMaps :
         callers' = [callers EXCEPT ![p].data = market_data,
                                    ![p].pc = "write"]
    /\ nFetches' = [nFetches EXCEPT ![callers[p].date] = @ + 1]
    /\ UNCHANGED <<lru, market_table, nLookups>>
    /\ UNCHANGED <<ledgerVars, pureVars>>

(* the provider raises: the exception leaves the wrapper, nothing is cached *)
FetchRaises(p) ==
    /\ callers[p].pc = "fetch"
    /\ callers' = [callers EXCEPT ![p].pc = "done", ![p].out = "raise"]
    /\ UNCHANGED <<lru, market_table, nLookups, nFetches>>
    /\ UNCHANGED <<ledgerVars, pureVars>>

(* write_market(today, market_data) *)
WriteMarket(p) ==
    /\ callers[p].pc = "write"
    /\ market_table' = write_market(market_table, callers[p].date,
                                    callers[p].data)
    /\ callers' = [callers EXCEPT ![p].pc = "store"]
    /\ UNCHANGED <<lru, nLookups, nFetches>>
    /\ UNCHANGED <<ledgerVars, pureVars>>

(* return market_data: the wrapper stores the result *)
Store(p) ==
    /\ callers[p].pc = "store"
    /\ lru' = lru_store(lru, callers[p].date, callers[p].data)
    /\ callers' = [callers EXCEPT ![p].pc = "done"]
    /\ UNCHANGED <<market_table, nLookups, nFetches>>
    /\ UNCHANGED <<ledgerVars, pureVars>>

NextCache ==
    \E p \in Callers :
        \/ Lookup(p)
        \/ ReadMarket(p)
        \/ Fetch(p)
        \/ FetchRaises(p)
        \/ WriteMarket(p)
        \/ Store(p)

SpecCache == InitCache /\ [][NextCache]_vars

(* C16: the population of the price map of a date is single-flighted:     *)
(* concurrent callers for the same uncached date cause exactly one bulk    *)
(* fetch, so two callers never both hold a freshly fetched map for the     *)
(* same date.                                                              *)
C16_SingleFlight ==
    \A p, q \in Callers :
        (/\ p # q
         /\ callers[p].pc = "write"
         /\ callers[q].pc = "write") => callers[p].date # callers[q].date

Entry(c) == [key |-> c.date, value |-> c.data]

(* C17: the day cache holds at most 2 dates; a lookup of a resident date   *)
(* returns at once the map stored for it, makes no bulk fetch and makes    *)
(* the date the most recently used; the map of a date does not change      *)
(* while it is resident; storing a third date drops exactly the least      *)
(* recently used resident date.                                            *)
C17_DayCacheLru ==
    [][/\ Len(lru') <= 2
       /\ Cardinality(Keys(lru')) = Len(lru')
       /\ \A d \in Keys(lru) \cap Keys(lru') :
            lru'[Index(lru', d)].value = lru[Index(lru, d)].value
       /\ nLookups' # nLookups =>
            /\ nFetches' = nFetches
            /\ Keys(lru') = Keys(lru)
            /\ \A p \in Callers :
                 /\ (callers[p].pc = "done" /\ callers'[p].pc = "miss") =>
                        callers'[p].date \notin Keys(lru)
                 /\ (callers'[p].pc = "done" /\ callers'[p] # callers[p]) =>
                        /\ callers'[p].date \in Keys(lru)
                        /\ lru'[Len(lru')] = Entry(callers'[p])
       /\ \A p \in Callers :
            (callers[p].pc = "store" /\ callers'[p].pc = "done") =>
               lru' = IF \E i \in 1..Len(lru) : lru[i].key = callers[p].date
                      THEN lru
                      ELSE IF Len(lru) = 2
                           THEN <<lru[2], Entry(callers[p])>>
                           ELSE Append(lru, Entry(callers[p]))]_vars

(* C17 witness: two dates are resident, a date that was bulk-fetched and   *)
(* written to the store is no longer resident, and a caller has just been  *)
(* served the map of a resident date.                                      *)
C17_Witness ==
    /\ Len(lru) = 2
    /\ \E d \in Dates :
         /\ nFetches[d] > 0
         /\ market_table[d] # EmptyDict
         /\ d \notin Keys(lru)
    /\ \E p \in Callers :
         /\ callers[p].pc = "done" /\ callers[p].out = "ok"
         /\ callers[p].date \in Keys(lru)
         /\ lru[Len(lru)] = Entry(callers[p])

----------------------------------------------------------------------------
(* The price resolver: get_share_price on a symbol as normalize_symbol     *)
(* left it, for every behaviour of the providers.  A price is a whole      *)
(* number of currency units, None or NaN.                                  *)

NaN == -2

(* Python: bool(x), x or y, float(x), x > 0 *)
Truthy(x) == x \notin {None, 0}

Or(x, y) == IF Truthy(x) THEN x ELSE y

FloatRaises(x) == x = None

GtZeroRaises(x) == x = None

GtZero(x) == x # NaN /\ x > 0

(* Result of a function: raised or returned val, and the provider calls    *)
(* made, in order                                                          *)
Ret(val, calls) == [raised |-> FALSE, val |-> val, calls |-> calls]

Raise(calls) == [raised |-> TRUE, val |-> 0, calls |-> calls]

(* Inputs.  "" stands for a falsy symbol. *)
NseSymbols == {"RELIANCE.NS"}
PxSymbols == {"", "AAPL", "MSFT"} \cup NseSymbols

(* ticker.history(period): raises, or a frame of daily bars, which may be  *)
(* empty or lack the Close column                                          *)
Frames ==
    {[kind |-> k, closes |-> <<>>] : k \in {"raise", "frame"}}
    \cup {[kind |-> "frame", closes |-> <<c>>] : c \in {NaN, -5, 0, 100}}
    \cup {[kind |-> "frame", closes |-> <<100, 250>>],
          [kind |-> "nocolumn", closes |-> <<100>>]}

(* result.min, result.prev_day: None, or a bar with its close *)
Bars ==
    {[present |-> FALSE, close |-> None]}
    \cup {[present |-> TRUE, close |-> c] : c \in {None, 0, -5, 100, 250}}

(* client.get_snapshot_ticker: raises, or a snapshot *)
Snapshots ==
    {[kind |-> "raise", min |-> b, prev_day |-> b] :
        b \in {[present |-> FALSE, close |-> None]}}
    \cup {[kind |-> "ok", min |-> b1, prev_day |-> b2] :
            b1 \in Bars, b2 \in Bars}

(* get_market_for_prior_date(today): raises, or today's price map *)
DayMaps ==
    {[kind |-> k, map |-> EmptyDict] : k \in {"raise", "ok"}}
    \cup {[kind |-> "ok", map |-> DictSet(EmptyDict, "AAPL", c)] :
            c \in {None, -5, 0, 100}}

EndsWithNS(symbol) == symbol \in NseSymbols

(* the 5-day query is never made *)
get_share_price_yahoo_no_retry(d1, d5) ==
    IF d1.kind = "frame" /\ d1.closes # <<>>
    THEN Ret(d1.closes[Len(d1.closes)], <<"yahoo:1d">>)
    ELSE Ret(0, <<"yahoo:1d">>)

(* d1, d5: what ticker.history answers for period "1d" and "5d" *)
get_share_price_yahoo(d1, d5) ==
    LET retry == d1.kind = "frame" /\ d1.closes = <<>>
        data == IF retry THEN d5 ELSE d1
        calls == IF retry THEN <<"yahoo:1d", "yahoo:5d">> ELSE <<"yahoo:1d">>
    IN  IF data.kind # "frame" \/ data.closes = <<>>
        THEN Ret(0, calls)
        ELSE IF FloatRaises(data.closes[Len(data.closes)])
             THEN Ret(0, calls)
             ELSE Ret(data.closes[Len(data.closes)], calls)

get_share_price_polygon_min(result) ==
    LET calls == <<"polygon:snapshot">>
    IN  IF result.kind = "raise" THEN Raise(calls)
        ELSE IF ~result.min.present THEN Ret(0, calls)
        ELSE IF Truthy(result.min.close) THEN Ret(result.min.close, calls)
        ELSE IF ~result.prev_day.present THEN Ret(0, calls)
        ELSE Ret(Or(result.prev_day.close, 0), calls)

get_share_price_polygon_eod(market_data, symbol) ==
    LET calls == <<"daycache">>
    IN  IF market_data.kind = "raise" THEN Raise(calls)
        ELSE Ret(DictGet(market_data.map, symbol, 0), calls)

get_share_price_polygon(is_paid_polygon, result, market_data, symbol) ==
    LET r == IF is_paid_polygon
             THEN get_share_price_polygon_min(result)
             ELSE get_share_price_polygon_eod(market_data, symbol)
    IN  IF r.raised THEN Ret(0, r.calls) ELSE r

(* get_share_price after normalize_symbol *)
resolve(x) ==
    IF x.symbol = "" THEN Ret(0, <<>>)
    ELSE IF EndsWithNS(x.symbol)
    THEN LET r == get_share_price_yahoo(x.d1, x.d5)
         IN  IF GtZeroRaises(r.val) THEN Raise(r.calls)
             ELSE IF GtZero(r.val) THEN r ELSE Ret(0, r.calls)
    ELSE IF x.polygon_api_key
    THEN LET r == get_share_price_polygon(x.is_paid_polygon, x.result,
                                          x.market_data, x.symbol)
         IN  IF GtZeroRaises(r.val) THEN Raise(r.calls)
             ELSE IF GtZero(r.val) THEN r ELSE Ret(0, r.calls)
    ELSE Ret(0, <<>>)

InitPx ==
    /\ acct = get(EmptyDict, Name).acct
    /\ db = get(EmptyDict, Name).db
    /\ market = [s \in Symbols |-> 0]
    /\ clock = 0
    /\ last = NoCall
    /\ nSteps = 0
    /\ procs = <<>>
    /\ CacheIdle
    /\ NzIdle
    /\ CdIdle
    /\ \E symbol \in PxSymbols, key \in BOOLEAN, paid \in BOOLEAN,
          d1 \in Frames, d5 \in Frames, result \in Snapshots,
          market_data \in DayMaps :
         px = [symbol |-> symbol, polygon_api_key |-> key,
               is_paid_polygon |-> paid, d1 |-> d1, d5 |-> d5,
               result |-> result, market_data |-> market_data,
               out |-> "none", price |-> 0, calls |-> <<>>]

GetSharePrice ==
    /\ px.out = "none"
    /\ LET r == resolve(px)
       IN  px' = [px EXCEPT !.out = IF r.raised THEN "raise" ELSE "ok",
                            !.price = r.val,
                            !.calls = r.calls]
    /\ UNCHANGED <<ledgerVars, cacheVars, nz, cd>>

NextPx == GetSharePrice

SpecPx == InitPx /\ [][NextPx]_vars

(* C18: get_share_price is total: whatever the symbol and the providers'   *)
(* behaviour, it returns without raising, and returns 0.0 or a strictly    *)
(* positive price.                                                         *)
C18_Total ==
    px.out # "none" =>
        /\ px.out = "ok"
        /\ px.price \notin {None, NaN}
        /\ px.price >= 0

(* the last close of a frame when it is a positive number, else 0 *)
LastClose(d) ==
    IF d.kind = "frame" /\ d.closes # <<>>
       /\ d.closes[Len(d.closes)] \notin {None, NaN}
       /\ d.closes[Len(d.closes)] > 0
    THEN d.closes[Len(d.closes)]
    ELSE 0

(* C19: for a symbol ending in .NS the resolver queries the intraday       *)
(* provider for 1 day, queries it again for 5 days only if the first       *)
(* answer is empty, makes no other call, and returns the last close found  *)
(* (0.0 when there is none or it is not positive).                         *)
C19_NseLookback ==
    (px.out # "none" /\ px.symbol \in NseSymbols) =>
        /\ px.out = "ok"
        /\ IF px.d1.kind = "frame" /\ px.d1.closes = <<>>
           THEN /\ px.calls = <<"yahoo:1d", "yahoo:5d">>
                /\ px.price = LastClose(px.d5)
           ELSE /\ px.calls = <<"yahoo:1d">>
                /\ px.price = LastClose(px.d1)

(* C19 witness: the 1-day answer was empty and the price is the last close *)
(* of the 5-day answer.                                                    *)
C19_Witness ==
    /\ px.out = "ok" /\ px.symbol \in NseSymbols
    /\ px.d1.kind = "frame" /\ px.d1.closes = <<>>
    /\ px.d5.closes = <<100, 250>>
    /\ px.price = 250
    /\ px.calls = <<"yahoo:1d", "yahoo:5d">>

(* C20: in the minute tier the price is the minute-bar close of the        *)
(* snapshot when present, else its previous-day close when present, else   *)
(* 0.0 (a close that is None or 0 counts as not present; a price that is   *)
(* not positive is returned as 0.0).                                       *)
C20_MinuteTier ==
    (/\ px.out # "none"
     /\ px.symbol \notin NseSymbols \cup {""}
     /\ px.polygon_api_key /\ px.is_paid_polygon
     /\ px.result.kind = "ok") =>
        LET min == px.result.min
            prev_day == px.result.prev_day
            close == IF min.present /\ min.close \notin {None, 0}
                     THEN min.close
                     ELSE IF prev_day.present /\ prev_day.close \notin {None, 0}
                          THEN prev_day.close
                          ELSE 0
        IN  /\ px.out = "ok"
            /\ px.price = IF close > 0 THEN close ELSE 0

----------------------------------------------------------------------------
(* normalize_symbol.  A string is the sequence of its characters, each a   *)
(* one-character string; only ASCII letters and digits are modelled.       *)

MaxSymLen == 5

LowerLetters == <<"a", "b", "c", "d", "e", "f", "g", "h", "i", "j", "k", "l",
                  "m", "n", "o", "p", "q", "r", "s", "t", "u", "v", "w", "x",
                  "y", "z">>
UpperLetters == <<"A", "B", "C", "D", "E", "F", "G", "H", "I", "J", "K", "L",
                  "M", "N", "O", "P", "Q", "R", "S", "T", "U", "V", "W", "X",
                  "Y", "Z">>
Digits == {"0", "1", "2", "3", "4", "5", "6", "7", "8", "9"}

Range(q) == {q[i] : i \in 1..Len(q)}

(* c.upper() *)
UpperChar(c) ==
    IF c \in Range(LowerLetters)
    THEN UpperLetters[CHOOSE i \in 1..Len(LowerLetters) : LowerLetters[i] = c]
    ELSE c

(* s.upper() *)
Upper(q) == [i \in 1..Len(q) |-> UpperChar(q[i])]

(* s.strip() *)
RECURSIVE Strip(_)
Strip(q) ==
    IF q = <<>> THEN q
    ELSE IF Head(q) = " " THEN Strip(Tail(q))
    ELSE IF q[Len(q)] = " " THEN Strip(SubSeq(q, 1, Len(q) - 1))
    ELSE q

(* re.sub(r'^(XXX[:/])', '', s, flags=re.IGNORECASE) for a 3-letter XXX *)
StripPrefix(q, exchange) ==
    IF /\ Len(q) >= 4
       /\ Upper(SubSeq(q, 1, 3)) = exchange
       /\ q[4] \in {":", "/"}
    THEN SubSeq(q, 5, Len(q))
    ELSE q

(* s.replace(c, '') for every c of a set, re.sub(r'[...]', '', s) *)
RECURSIVE Remove(_, _)
Remove(q, chars) ==
    IF q = <<>> THEN q
    ELSE IF Head(q) \in chars THEN Remove(Tail(q), chars)
    ELSE <<Head(q)>> \o Remove(Tail(q), chars)

EndsWith(q, suffix) ==
    /\ Len(q) >= Len(suffix)
    /\ SubSeq(q, Len(q) - Len(suffix) + 1, Len(q)) = suffix

(* the part of normalize_symbol before the suffix rule *)
clean(symbol) ==
    LET s1 == Strip(symbol)
        s2 == StripPrefix(s1, <<"N", "S", "E">>)
        s3 == StripPrefix(s2, <<"B", "S", "E">>)
        s4 == Remove(s3, {" ", "-", "/", "\\"})
        s5 == Remove(s4, {"&", "@", "#", "(", ")", "[", "]", "'"})
    IN  IF "." \in Range(s5)
        THEN LET dot == CHOOSE i \in 1..Len(s5) :
                           /\ s5[i] = "."
                           /\ \A j \in 1..(i - 1) : s5[j] # "."
             IN  Upper(SubSeq(s5, 1, dot - 1)) \o <<".">>
                    \o Upper(SubSeq(s5, dot + 1, Len(s5)))
        ELSE Upper(s5)

Suffixes == {<<".", "N", "S">>, <<".", "B", "O">>, <<".", "B", "S", "E">>,
             <<".", "O", "E">>, <<".", "N", "C">>, <<".", "M", "X">>,
             <<".", "U", "S">>}

(* .NS is attached to names of 4 characters too *)
normalize_symbol_from_four(symbol) ==
    IF symbol = <<>> THEN symbol
    ELSE LET s == clean(symbol)
         IN  IF /\ \A suffix \in Suffixes : ~EndsWith(s, suffix)
                /\ Range(s) \cap Range(UpperLetters) # {}
                /\ Range(s) \cap Digits = {}
                /\ Len(s) >= 4
             THEN s \o <<".", "N", "S">>
             ELSE s

normalize_symbol(symbol) ==
    IF symbol = <<>> THEN symbol
    ELSE LET s == clean(symbol)
         IN  IF /\ \A suffix \in Suffixes : ~EndsWith(s, suffix)
                /\ Range(s) \cap Range(UpperLetters) # {}
                /\ Range(s) \cap Digits = {}
                /\ Len(s) > 4
             THEN s \o <<".", "N", "S">>
             ELSE s

(* Inputs: every string of at most MaxSymLen characters over a small       *)
(* alphabet, and the examples of the docstring and of the specification    *)
SymAlphabet == {"N", "S", "E", "n", ":", ".", "1", "-", " "}

SymStrings == UNION {[1..n -> SymAlphabet] : n \in 0..MaxSymLen}

Examples ==
    {<<"L", "&", "T", ".", "N", "S">>,
     <<"l", "t", ".", "n", "s">>,
     <<"N", "S", "E", ":", "L", "T">>,
     <<"N", "S", "E", "/", "R", "E", "L", "I", "A", "N", "C", "E">>,
     <<"r", "e", "l", "i", "a", "n", "c", "e">>,
     <<"B", "S", "E", ":", "5", "0", "0", "3", "2", "5">>,
     <<"n", "s", "e", ":", "r", "e", "l", "i", "a", "n", "c", "e">>,
     <<"R", "E", "L", "I", "A", "N", "C", "E", ".", "N", "S">>,
     <<"A", "A", "P", "L">>,
     <<"-", "N", "S", "E", ":", "R", "E", "L", "I", "A", "N", "C", "E">>,
     <<"N", "S", "E", ":", "N", "S", "E", ":", "X">>}

InitNorm ==
    /\ acct = get(EmptyDict, Name).acct
    /\ db = get(EmptyDict, Name).db
    /\ market = [s \in Symbols |-> 0]
    /\ clock = 0
    /\ last = NoCall
    /\ nSteps = 0
    /\ procs = <<>>
    /\ CacheIdle
    /\ PxIdle
    /\ CdIdle
    /\ \E symbol \in SymStrings \cup Examples :
         nz = [symbol |-> symbol, out |-> "none", result |-> <<>>,
               again |-> <<>>]

NormalizeSymbol ==
    /\ nz.out = "none"
    /\ nz' = [nz EXCEPT !.out = "ok", !.result = normalize_symbol(nz.symbol)]
    /\ UNCHANGED <<ledgerVars, cacheVars, px, cd>>

(* get_share_price is handed a symbol that normalize_symbol returned      *)
(* before, a stored holdings key, and normalizes it once more             *)
NormalizeStored ==
    /\ nz.out = "ok"
    /\ nz' = [nz EXCEPT !.out = "twice", !.again = normalize_symbol(nz.result)]
    /\ UNCHANGED <<ledgerVars, cacheVars, px, cd>>

NextNorm ==
    \/ NormalizeSymbol
    \/ NormalizeStored

SpecNorm == InitNorm /\ [][NextNorm]_vars

----------------------------------------------------------------------------
(* The ledger called with symbols as the caller spells them.  buy_shares   *)
(* and sell_shares pass the symbol to get_share_price, which normalizes    *)
(* it, and use the symbol as given as the holdings key.                    *)

MaxRawSteps == 3

RawSymbols ==
    {<<"n", "s", "e", ":", "r", "e", "l", "i", "a", "n", "c", "e">>,
     <<"R", "E", "L", "I", "A", "N", "C", "E", ".", "N", "S">>,
     <<"A", "A", "P", "L">>}

CanonSymbols == {normalize_symbol(raw) : raw \in RawSymbols}

(* get_share_price(symbol) for each spelling: the price of its canonical   *)
(* symbol                                                                  *)
PriceView(mkt) == [raw \in RawSymbols |-> mkt[normalize_symbol(raw)]]

InitRaw ==
    /\ acct = get(EmptyDict, Name).acct
    /\ db = get(EmptyDict, Name).db
    /\ market \in [CanonSymbols -> Prices]
    /\ clock = 0
    /\ last = NoCall
    /\ nSteps = 0
    /\ procs = <<>>
    /\ CacheIdle
    /\ PxIdle
    /\ NzIdle
    /\ CdIdle

BuyRaw(max) ==
    \E symbol \in RawSymbols, quantity \in Quantities :
        Return(buy_shares(acct, db, PriceView(market), symbol, quantity, "t",
                          clock, 0),
               [NoCall EXCEPT !.op = "buy", !.symbol = symbol,
                              !.quantity = quantity,
                              !.price = PriceView(market)[symbol]], max)

SellRaw(max) ==
    \E symbol \in RawSymbols, quantity \in Quantities :
        Return(sell_shares(acct, db, PriceView(market), symbol, quantity, "t",
                           clock, 0),
               [NoCall EXCEPT !.op = "sell", !.symbol = symbol,
                              !.quantity = quantity,
                              !.price = PriceView(market)[symbol]], max)

NextRaw ==
    \/ BuyRaw(MaxRawSteps)
    \/ SellRaw(MaxRawSteps)

SpecRaw == InitRaw /\ [][NextRaw]_vars

(* C21: after a successful buy of q > 0 shares under any spelling of a     *)
(* symbol, the holdings entry that grew by q is the one of the canonical   *)
(* symbol normalize_symbol(spelling), the symbol that was priced.          *)
C21_CanonicalHoldingsKey ==
    [][(IsCall({"buy"}) /\ last'.out = "ok" /\ last'.quantity > 0) =>
         LET canonical == normalize_symbol(last'.symbol)
         IN  /\ canonical \in DOMAIN acct'.holdings
             /\ acct'.holdings[canonical]
                    = Held(acct.holdings, canonical) + last'.quantity]_vars

----------------------------------------------------------------------------
(* Account.get with the name as the caller spells it *)

MaxNameSteps == 2

Names == {"Ed", "ed"}

(* the state after the first access, under either spelling *)
InitNames ==
    /\ \E name \in Names :
         /\ acct = get(EmptyDict, name).acct
         /\ db = get(EmptyDict, name).db
    /\ market \in [Symbols -> Prices]
    /\ clock = 0
    /\ last = NoCall
    /\ nSteps = 0
    /\ procs = <<>>
    /\ CacheIdle
    /\ PxIdle
    /\ NzIdle
    /\ CdIdle

GetName ==
    \E name \in Names :
        /\ acct' = get(db, name).acct
        /\ db' = get(db, name).db
        /\ last' = [NoCall EXCEPT !.op = "get"]
        /\ UNCHANGED <<market, clock, nSteps, procs, cacheVars, pureVars>>

NextNames ==
    \/ GetName
    \/ Deposit({0}, MaxNameSteps)
    \/ Withdraw({0}, MaxNameSteps)
    \/ BuyShares({0}, MaxNameSteps)
    \/ SellShares({0}, MaxNameSteps)
    \/ Report({0}, MaxNameSteps)
    \/ Reset({0}, MaxNameSteps)

SpecNames == InitNames /\ [][NextNames]_vars

(* C22: the first Account.get persists the default record under the       *)
(* lower-cased name, so a later Account.get under any spelling of the name *)
(* finds the record and writes nothing.                                    *)
C22_FirstAccessPersistsLowerCased ==
    [][IsCall({"get"}) => ("ed" \in DOMAIN db /\ db' = db)]_vars

(* Properties of normalize_symbol *)

C28_DocstringExamples ==
    nz.out = "ok" =>
      /\ nz.symbol = <<"L", "&", "T", ".", "N", "S">> =>
              nz.result = <<"L", "T", ".", "N", "S">>
      /\ nz.symbol = <<"l", "t", ".", "n", "s">> =>
              nz.result = <<"L", "T", ".", "N", "S">>
      /\ nz.symbol = <<"N", "S", "E", ":", "L", "T">> =>
              nz.result = <<"L", "T", ".", "N", "S">>
      /\ nz.symbol = <<"N", "S", "E", "/", "R", "E", "L", "I", "A", "N", "C", "E">> =>
              nz.result = <<"R", "E", "L", "I", "A", "N", "C", "E", ".", "N", "S">>
      /\ nz.symbol = <<"r", "e", "l", "i", "a", "n", "c", "e">> =>
              nz.result = <<"R", "E", "L", "I", "A", "N", "C", "E">>
      /\ nz.symbol = <<"B", "S", "E", ":", "5", "0", "0", "3", "2", "5">> =>
              nz.result = <<"5", "0", "0", "3", "2", "5", ".", "B", "O">>

(* C31: normalize_symbol is idempotent: normalizing a symbol it returned  *)
(* gives that symbol again, for every input string, "-NSE:RELIANCE" and    *)
(* "NSE:NSE:X" included.                                                   *)
C31_Idempotent ==
    nz.out = "twice" => nz.again = nz.result

----------------------------------------------------------------------------
(* get_portfolio_candles.  Time is counted in units of 30 seconds; a       *)
(* timestamp that pandas cannot parse is NaT.  rows are the points         *)
(* <<timestamp, value>> of the value series, txs the transactions.         *)

MaxPoints == 3

NaT == -3

(* pandas resample strings and their bucket widths; any other string is    *)
(* rejected by resample                                                    *)
Widths == [r \in {"1min", "5min"} |-> IF r = "1min" THEN 2 ELSE 10]

Resolutions == {"1min", "5min", "bogus"}

Times == {NaT, 0, 1, 2}
Values == {100, 200}

Points == {<<t, v>> : t \in Times, v \in Values}

TxTimes == {NaT, 1, 4}

Trades == {[timestamp |-> t, quantity |-> q] : t \in TxTimes, q \in {10, -10}}

TxLogs == UNION {[1..n -> Trades] : n \in 0..2}

Starts == {None, 1}

Ends == {None, 1}

Abs(x) == IF x < 0 THEN -x ELSE x

(* the start of the bucket of width w that holds time t *)
Bucket(t, w) == (t \div w) * w

(* df.dropna(subset=[column]) after pd.to_datetime(..., errors="coerce") *)
RECURSIVE DropNaT(_, _)
DropNaT(q, time) ==
    IF q = <<>> THEN q
    ELSE IF time[Head(q)] = NaT THEN DropNaT(Tail(q), time)
    ELSE <<Head(q)>> \o DropNaT(Tail(q), time)

(* the rows are left in insertion order *)
SortByTime_unsorted(q) == q

(* sort_index(): ascending by timestamp, equal timestamps keep their order *)
RECURSIVE SortByTime(_)
SortByTime(q) ==
    IF q = <<>> THEN q
    ELSE LET i == CHOOSE i \in 1..Len(q) :
                     /\ \A j \in 1..Len(q) : q[i][1] <= q[j][1]
                     /\ \A j \in 1..(i - 1) : q[j][1] # q[i][1]
         IN  <<q[i]>> \o SortByTime(SubSeq(q, 1, i - 1)
                                        \o SubSeq(q, i + 1, Len(q)))

RECURSIVE InBucket(_, _, _)
InBucket(q, b, w) ==
    IF q = <<>> THEN q
    ELSE IF Bucket(Head(q)[1], w) = b
         THEN <<Head(q)>> \o InBucket(Tail(q), b, w)
         ELSE InBucket(Tail(q), b, w)

MaxOf(S) == CHOOSE x \in S : \A y \in S : y <= x

MinOf(S) == CHOOSE x \in S : \A y \in S : x <= y

(* resample(...).agg(["first", "max", "min", "last"]), empty bins dropped: *)
(* one row per non-empty bucket, ascending                                 *)
RECURSIVE Ohlc(_, _, _)
Ohlc(df, buckets, w) ==
    IF buckets = {} THEN <<>>
    ELSE LET b == MinOf(buckets)
             pts == InBucket(df, b, w)
             vals == {pts[i][2] : i \in 1..Len(pts)}
         IN  <<[datetime |-> b, open |-> pts[1][2], high |-> MaxOf(vals),
                low |-> MinOf(vals), close |-> pts[Len(pts)][2]]>>
             \o Ohlc(df, buckets \ {b}, w)

(* tx_df["abs_qty"].resample(resolution).sum() at bucket b *)
RECURSIVE VolumeIn(_, _, _)
VolumeIn(txs, b, w) ==
    IF txs = <<>> THEN 0
    ELSE (IF Head(txs).timestamp # NaT /\ Bucket(Head(txs).timestamp, w) = b
          THEN Abs(Head(txs).quantity) ELSE 0)
         + VolumeIn(Tail(txs), b, w)

(* vol.get(idx, 0): an invalid resolution makes the volume resample raise, *)
(* and the except branch sets every volume to 0                            *)
Volume(txs, b, resolution) ==
    IF txs = <<>> THEN 0
    ELSE IF resolution \notin DOMAIN Widths THEN 0
    ELSE VolumeIn(txs, b, Widths[resolution])

(* df[df.index >= start], df[df.index <= end]; None leaves the side open *)
RECURSIVE Between(_, _, _)
Between(q, start, end) ==
    IF q = <<>> THEN q
    ELSE IF /\ (start = None \/ Head(q)[1] >= start)
            /\ (end = None \/ Head(q)[1] <= end)
         THEN <<Head(q)>> \o Between(Tail(q), start, end)
         ELSE Between(Tail(q), start, end)

get_portfolio_candles(rows, txs, resolution, start, end) ==
    IF rows = <<>> THEN <<>>
    ELSE LET df == Between(SortByTime(DropNaT(rows, [p \in Points |-> p[1]])),
                           start, end)
             w == IF resolution \in DOMAIN Widths THEN Widths[resolution]
                  ELSE Widths["1min"]
             agg == Ohlc(df, {Bucket(df[i][1], w) : i \in 1..Len(df)}, w)
         IN  [k \in 1..Len(agg) |->
                [datetime |-> agg[k].datetime, open |-> agg[k].open,
                 high |-> agg[k].high, low |-> agg[k].low,
                 close |-> agg[k].close,
                 volume |-> Volume(txs, agg[k].datetime, resolution)]]

InitCandles ==
    /\ acct = get(EmptyDict, Name).acct
    /\ db = get(EmptyDict, Name).db
    /\ market = [s \in Symbols |-> 0]
    /\ clock = 0
    /\ last = NoCall
    /\ nSteps = 0
    /\ procs = <<>>
    /\ CacheIdle
    /\ PxIdle
    /\ NzIdle
    /\ \E rows \in UNION {[1..n -> Points] : n \in 0..MaxPoints},
          txs \in TxLogs, resolution \in Resolutions,
          start \in Starts, end \in Ends :
         cd = [rows |-> rows, txs |-> txs, resolution |-> resolution,
               start |-> start, end |-> end, out |-> "none", bars |-> <<>>]

GetPortfolioCandles ==
    /\ cd.out = "none"
    /\ cd' = [cd EXCEPT !.out = "ok",
                        !.bars = get_portfolio_candles(cd.rows, cd.txs,
                                                       cd.resolution,
                                                       cd.start, cd.end)]
    /\ UNCHANGED <<ledgerVars, cacheVars, px, nz>>

NextCandles == GetPortfolioCandles

SpecCandles == InitCandles /\ [][NextCandles]_vars

(* Properties of get_portfolio_candles *)

(* the indices of the points that parse and lie within [start, end] *)
Retained ==
    {i \in 1..Len(cd.rows) :
        /\ cd.rows[i][1] # NaT
        /\ (cd.start = None \/ cd.rows[i][1] >= cd.start)
        /\ (cd.end = None \/ cd.rows[i][1] <= cd.end)}

(* the bucket width of the bars: the requested one, or one minute *)
BarWidth ==
    IF cd.resolution \in DOMAIN Widths THEN Widths[cd.resolution]
    ELSE Widths["1min"]

(* the sum of abs(quantity) over the first n transactions that parse and   *)
(* fall in the bucket of width w starting at b                             *)
RECURSIVE Traded(_, _, _)
Traded(n, b, w) ==
    IF n = 0 THEN 0
    ELSE Traded(n - 1, b, w)
         + (IF /\ cd.txs[n].timestamp # NaT
               /\ b <= cd.txs[n].timestamp
               /\ cd.txs[n].timestamp < b + w
            THEN Abs(cd.txs[n].quantity) ELSE 0)

C25_VolumeIsTradedQuantity ==
    cd.out = "ok" =>
      \A k \in 1..Len(cd.bars) :
          /\ cd.bars[k].volume
                 = Traded(Len(cd.txs), cd.bars[k].datetime, BarWidth)
          /\ cd.bars[k].volume \in Nat

(* C26: for an unrecognized resolution the bars are exactly those of the   *)
(* 1-minute resolution, volumes included.                                  *)
C26_FallbackIsOneMinute ==
    (cd.out = "ok" /\ cd.resolution \notin DOMAIN Widths) =>
        cd.bars = get_portfolio_candles(cd.rows, cd.txs, "1min",
                                        cd.start, cd.end)

====
